---- MODULE Spec2Model ----
(***************************************************************************)
(* Model of the RmlUi scene components of rbfx:                            *)
(*   RmlUIComponent       (Source/Urho3D/RmlUI/RmlUIComponent.cpp)         *)
(*   RmlMaterialComponent (RmlMaterialComponent.cpp)                       *)
(* Three parts: the offscreen surface (SetSize), the virtual material      *)
(* lifecycle (OnNodeSet / SetVirtualMaterialName / ApplyAttributes) and    *)
(* the screen-to-UI coordinate mapper (ScreenToUI / TranslateMousePos).    *)
(***************************************************************************)
EXTENDS Integers, Sequences, FiniteSets, TLC

VARIABLES
    \* ---- offscreen surface (RmlUIComponent) ----
    textureSize,     \* texture_ width/height
    renderTarget,    \* render surface bound to offScreenUI_ ("surface" or Null)
    enabled,         \* offScreenUI_ enabled flag
    uiSize,          \* offScreenUI_->GetRmlContext()->GetDimensions()
    logged,          \* error messages logged by the last handler
    \* ---- virtual material (RmlMaterialComponent) ----
    node,            \* node_ ("node" or Null)
    material,        \* material_ (a material id or Null)
    matName,         \* Material::GetName() of every material object
    matTechnique,    \* technique 0 of every material object
    matDiffuse,      \* TU_DIFFUSE texture of every material object
    resources,       \* materials held by the resource cache
    created,         \* materials made by CreateMaterial
    \* ---- coordinate mapper ----
    remapMousePos,   \* remapMousePos_
    env,             \* live engine state read by one mapper call
    screenPos,       \* the in/out IntVector2& screenPos
    viewport,        \* local `viewport` (index into the viewport list, 0 = nullptr)
    scanned,         \* the viewport loop was entered
    raycast,         \* octree->Raycast(query) was issued
    \* ---- last handler that ran and its arguments ----
    call

vars == <<textureSize, renderTarget, enabled, uiSize, logged,
          node, material, matName, matTechnique, matDiffuse, resources, created,
          remapMousePos, env, screenPos, viewport, scanned, raycast, call>>

surfaceVars == <<textureSize, renderTarget, enabled, uiSize>>
materialVars == <<material, matName, matTechnique, matDiffuse, resources, created>>
mapperVars == <<remapMousePos, env, screenPos, viewport, scanned, raycast>>

Null == "null"

(***************************************************************************)
(* Program constants                                                       *)
(***************************************************************************)
UICOMPONENT_DEFAULT_TEXTURE_SIZE == 512
UICOMPONENT_MIN_TEXTURE_SIZE == 64
UICOMPONENT_MAX_TEXTURE_SIZE == 4096

\* IntRect::ZERO and the {-1, -1} sentinel
IntRectZERO == <<0, 0, 0, 0>>
Sentinel == <<-1, -1>>

(***************************************************************************)
(* Bounds of the model                                                     *)
(***************************************************************************)
MaxViewports == 2
MaxHits == 3

NoCall == [op |-> "none", size |-> <<0, 0>>, allocOk |-> FALSE, name |-> ""]

(***************************************************************************)
(* Offscreen surface: RmlUIComponent::SetSize                              *)
(***************************************************************************)
\* sizes requested by callers: below, at and above the limits
SizeValues == {UICOMPONENT_MIN_TEXTURE_SIZE - 1, UICOMPONENT_MIN_TEXTURE_SIZE,
               UICOMPONENT_DEFAULT_TEXTURE_SIZE, UICOMPONENT_MAX_TEXTURE_SIZE,
               UICOMPONENT_MAX_TEXTURE_SIZE + 1}

SetSize_InvalidSize_NoSquareCheck(size) ==
    \/ size[1] < UICOMPONENT_MIN_TEXTURE_SIZE \/ size[1] > UICOMPONENT_MAX_TEXTURE_SIZE
    \/ size[2] < UICOMPONENT_MIN_TEXTURE_SIZE \/ size[2] > UICOMPONENT_MAX_TEXTURE_SIZE

\* the guard of SetSize
SetSize_InvalidSize(size) ==
    \/ size[1] < UICOMPONENT_MIN_TEXTURE_SIZE \/ size[1] > UICOMPONENT_MAX_TEXTURE_SIZE
    \/ size[2] < UICOMPONENT_MIN_TEXTURE_SIZE \/ size[2] > UICOMPONENT_MAX_TEXTURE_SIZE
    \/ size[1] # size[2]

\* Texture2D::SetSize: the texture ends with the requested size when the
\* allocation succeeded; after a failed allocation it holds either size
Texture2D_SetSize(old, size, ok) ==
    IF ok THEN {size} ELSE {old, size}

\* RmlUI::SetRenderTarget: the context takes the dimensions of the surface it
\* is given; detaching the surface leaves the dimensions as they are
RmlUI_SetRenderTarget(oldDims, surface, size) ==
    IF surface # Null THEN size ELSE oldDims

SetSize_Failed_StaysEnabled(size) ==
    /\ renderTarget' = Null
    /\ enabled' = enabled
    /\ uiSize' = RmlUI_SetRenderTarget(uiSize, Null, size)
    /\ logged' = {"Resizing of UI rendertarget texture failed."}

\* the branch taken when texture_->SetSize(...) returned true
SetSize_Succeeded(size) ==
    /\ renderTarget' = "surface"
    /\ enabled' = TRUE
    /\ uiSize' = RmlUI_SetRenderTarget(uiSize, "surface", size)
    /\ logged' = {}

\* the branch taken when texture_->SetSize(...) returned false
SetSize_Failed(size) ==
    /\ renderTarget' = Null
    /\ enabled' = FALSE
    /\ uiSize' = RmlUI_SetRenderTarget(uiSize, Null, size)
    /\ logged' = {"Resizing of UI rendertarget texture failed."}

SetSizeBody(size, ok) ==
    IF SetSize_InvalidSize(size)
    THEN /\ logged' = {"Invalid texture size"}
         /\ UNCHANGED surfaceVars
    ELSE /\ textureSize' \in Texture2D_SetSize(textureSize, size, ok)
         /\ IF ok THEN SetSize_Succeeded(size) ELSE SetSize_Failed(size)

SetSize ==
    \E w \in SizeValues, h \in SizeValues, ok \in BOOLEAN :
        /\ SetSizeBody(<<w, h>>, ok)
        /\ call' = [NoCall EXCEPT !.op = "SetSize", !.size = <<w, h>>, !.allocOk = ok]
        /\ UNCHANGED <<node, materialVars, mapperVars>>

(***************************************************************************)
(* Virtual material lifecycle: RmlMaterialComponent                        *)
(***************************************************************************)
\* material objects: two that other owners may have put in the resource
\* cache, and the one CreateMaterial makes (material_ is never reset, so
\* CreateMaterial runs at most once in the life of a component)
ExternalMaterials == {"e1", "e2"}
NewMaterial == "m1"
MaterialIds == ExternalMaterials \cup {NewMaterial}
MaterialNames == {"", "a", "b", "c"}
DiffTechnique == "Techniques/Diff.xml"
OwnTexture == "texture_"

\* ResourceCache::GetResource<Material>(name, false): the cached material of
\* that name, if any
CacheLookup(res, names, name) == {x \in res : names[x] = name}

\* RmlTextureComponent::AddVirtualResource: the cache is keyed by name, the
\* added resource takes the place of any other resource of its name
AddVirtualResource(res, names, m) ==
    (res \ {x \in res : names[x] = names[m]}) \cup {m}

\* RmlTextureComponent::RemoveVirtualResource: releases the resource of that name
RemoveVirtualResource(res, names, m) ==
    res \ {x \in res : names[x] = names[m]}

UpdateVirtualMaterialResource_NoRemove(res, names, mat, nd) ==
    IF mat = Null THEN res
    ELSE IF nd # Null THEN AddVirtualResource(res, names, mat)
    ELSE res

UpdateVirtualMaterialResource(res, names, mat, nd) ==
    IF mat = Null THEN res
    ELSE IF nd # Null THEN AddVirtualResource(res, names, mat)
    ELSE RemoveVirtualResource(res, names, mat)

CreateMaterial ==
    /\ material' = NewMaterial
    /\ created' = created \cup {NewMaterial}
    /\ matTechnique' = [matTechnique EXCEPT ![NewMaterial] = DiffTechnique]
    /\ matDiffuse' = [matDiffuse EXCEPT ![NewMaterial] = OwnTexture]

ReuseCachedMaterial_NoRebind(m) ==
    /\ material' = m
    /\ UNCHANGED <<created, matTechnique, matDiffuse>>

\* material_ = material; material_->SetTexture(TU_DIFFUSE, texture_);
ReuseCachedMaterial(m) ==
    /\ material' = m
    /\ matDiffuse' = [matDiffuse EXCEPT ![m] = OwnTexture]
    /\ UNCHANGED <<created, matTechnique>>

\* Component::SetNode stores node_ and calls OnNodeSet(node)
OnNodeSet ==
    \E n \in {"node", Null} :
        /\ node' = n
        /\ resources' = UpdateVirtualMaterialResource(resources, matName, material, n)
        /\ logged' = {}
        /\ call' = [NoCall EXCEPT !.op = "OnNodeSet", !.name = n]
        /\ UNCHANGED <<material, matName, matTechnique, matDiffuse, created>>
        /\ UNCHANGED <<surfaceVars, mapperVars>>

SetVirtualMaterialName ==
    \E name \in MaterialNames :
        /\ IF material # Null
           THEN UNCHANGED <<material, created, matTechnique, matDiffuse>>
           ELSE IF CacheLookup(resources, matName, name) # {}
                THEN ReuseCachedMaterial(CHOOSE x \in CacheLookup(resources, matName, name) : TRUE)
                ELSE CreateMaterial
        /\ matName' = [matName EXCEPT ![material'] = name]
        /\ resources' = UpdateVirtualMaterialResource(
               IF material # Null
               THEN RemoveVirtualResource(resources, matName, material)
               ELSE resources,
               matName', material', node)
        /\ logged' = {}
        /\ call' = [NoCall EXCEPT !.op = "SetVirtualMaterialName", !.name = name]
        /\ UNCHANGED <<node, surfaceVars, mapperVars>>

ApplyAttributes ==
    /\ IF material = Null
       THEN CreateMaterial
       ELSE UNCHANGED <<material, created, matTechnique, matDiffuse>>
    /\ matName' = matName
    /\ resources' = UpdateVirtualMaterialResource(resources, matName, material', node)
    /\ logged' = {}
    /\ call' = [NoCall EXCEPT !.op = "ApplyAttributes"]
    /\ UNCHANGED <<node, surfaceVars, mapperVars>>

(***************************************************************************)
(* Coordinate mapper: RmlMaterialComponent::TranslateMousePos and          *)
(* RmlUIComponent::ScreenToUI                                              *)
(***************************************************************************)
\* IntRect::Contains(IntVector2): left/top inclusive, right/bottom exclusive
IntRect_Contains(rect, pos) ==
    /\ pos[1] >= rect[1] /\ pos[2] >= rect[2]
    /\ pos[1] < rect[3] /\ pos[2] < rect[4]

\* static_cast<int>(x) of the product a/b, b > 0: truncation toward zero
TruncDiv(a, b) == IF a >= 0 THEN a \div b ELSE -((-a) \div b)

\* IntVector2(static_cast<int>(uv.x_ * uiSize.x_), static_cast<int>(uv.y_ * uiSize.y_))
\* a UV coordinate is the fraction n/d
UVToUI(uv, dims) ==
    <<TruncDiv(uv[1].n * dims[1], uv[1].d), TruncDiv(uv[2].n * dims[2], uv[2].d)>>

\* if (!ui->GetBlockEvents() && context->GetHoverElement() != context->GetRootElement())
OverlayClaims_TranslateMousePos_Inverted(e) ==
    e.uiExists /\ e.uiBlockEvents /\ ~e.hoverIsRoot

OverlayClaims_TranslateMousePos(e) ==
    e.uiExists /\ ~e.uiBlockEvents /\ ~e.hoverIsRoot

\* if (ui->IsEnabled() && context->GetHoverElement() != context->GetRootElement())
OverlayClaims_ScreenToUI(e) ==
    e.uiExists /\ e.uiEnabled /\ ~e.hoverIsRoot

MissingSceneContext_NoOctreeCheck(e) ==
    ~e.scene \/ ~e.model \/ ~e.renderer

\* scene == nullptr || model == nullptr || renderer == nullptr || octree == nullptr
\* with octree = scene ? scene->GetComponent<Octree>() : nullptr
MissingSceneContext(e) ==
    ~e.scene \/ ~e.model \/ ~e.renderer \/ ~(e.scene /\ e.octree)

\* the viewport loop, from index i on, with `viewport` the choice so far;
\* the break leaves the loop at the first viewport bound to the scene
RECURSIVE ResolveViewport(_, _, _, _)
ResolveViewport(vps, i, chosen, pos) ==
    IF i > Len(vps) THEN chosen
    ELSE IF vps[i].exists /\ vps[i].scene = "scene"
         THEN IF vps[i].rect = IntRectZERO
              THEN (IF chosen = 0 THEN i ELSE chosen)
              ELSE IF IntRect_Contains(vps[i].rect, pos) THEN i ELSE chosen
         ELSE ResolveViewport(vps, i + 1, chosen, pos)

RECURSIVE FilterHits_BillboardAborts(_, _, _, _)
FilterHits_BillboardAborts(hits, i, pos, dims) ==
    IF i > Len(hits) THEN pos
    ELSE IF hits[i].drawable # "model"
         THEN pos
         ELSE FilterHits_BillboardAborts(hits, i + 1, UVToUI(hits[i].uv, dims), dims)

RECURSIVE FilterHits_OccluderSkipped(_, _, _, _)
FilterHits_OccluderSkipped(hits, i, pos, dims) ==
    IF i > Len(hits) THEN pos
    ELSE IF hits[i].drawable # "model"
         THEN FilterHits_OccluderSkipped(hits, i + 1, pos, dims)
         ELSE FilterHits_OccluderSkipped(hits, i + 1, UVToUI(hits[i].uv, dims), dims)

RECURSIVE FilterHits_OccluderSentinel(_, _, _, _)
FilterHits_OccluderSentinel(hits, i, pos, dims) ==
    IF i > Len(hits) THEN pos
    ELSE IF hits[i].drawable # "model"
         THEN IF hits[i].drawable = "billboard"
              THEN FilterHits_OccluderSentinel(hits, i + 1, pos, dims)
              ELSE Sentinel
         ELSE FilterHits_OccluderSentinel(hits, i + 1, UVToUI(hits[i].uv, dims), dims)

\* the loop over queryResultVector, from index i on, with pos the value
\* screenPos holds so far
RECURSIVE FilterHits(_, _, _, _)
FilterHits(hits, i, pos, dims) ==
    IF i > Len(hits) THEN pos
    ELSE IF hits[i].drawable # "model"
         THEN IF hits[i].drawable = "billboard"
              THEN FilterHits(hits, i + 1, pos, dims)
              ELSE pos
         ELSE FilterHits(hits, i + 1, UVToUI(hits[i].uv, dims), dims)

\* everything after the global-UI check, common to both components
MapThroughScene(e) ==
    IF MissingSceneContext(e)
    THEN /\ UNCHANGED screenPos
         /\ viewport' = 0 /\ scanned' = FALSE /\ raycast' = FALSE
    ELSE LET vp == ResolveViewport(e.viewports, 1, 0, screenPos) IN
         /\ viewport' = vp
         /\ scanned' = TRUE
         /\ IF vp = 0 \/ ~e.viewports[vp].camera
            THEN /\ UNCHANGED screenPos
                 /\ raycast' = FALSE
            ELSE /\ raycast' = TRUE
                 /\ screenPos' = IF e.hits = <<>> THEN screenPos
                                 ELSE FilterHits(e.hits, 1, screenPos, uiSize)

MapperReturnsAtEntry ==
    /\ UNCHANGED screenPos
    /\ viewport' = 0 /\ scanned' = FALSE /\ raycast' = FALSE

MapperSetsSentinel ==
    /\ screenPos' = Sentinel
    /\ viewport' = 0 /\ scanned' = FALSE /\ raycast' = FALSE

TranslateMousePos ==
    /\ call.op = "none"
    /\ IF ~remapMousePos \/ node = Null
       THEN MapperReturnsAtEntry
       ELSE IF OverlayClaims_TranslateMousePos(env)
            THEN MapperSetsSentinel
            ELSE MapThroughScene(env)
    /\ logged' = {}
    /\ call' = [NoCall EXCEPT !.op = "TranslateMousePos"]
    /\ UNCHANGED <<remapMousePos, env, node, surfaceVars, materialVars>>

ScreenToUI ==
    /\ call.op = "none"
    /\ IF node = Null
       THEN MapperReturnsAtEntry
       ELSE IF OverlayClaims_ScreenToUI(env)
            THEN MapperSetsSentinel
            ELSE MapThroughScene(env)
    /\ logged' = {}
    /\ call' = [NoCall EXCEPT !.op = "ScreenToUI"]
    /\ UNCHANGED <<remapMousePos, env, node, surfaceVars, materialVars>>

(***************************************************************************)
(* Inputs of the mapper                                                    *)
(***************************************************************************)
SmallRect == <<0, 0, 100, 100>>
Positions == {<<50, 50>>, <<150, 150>>}

NullViewport == [exists |-> FALSE, scene |-> Null, rect |-> IntRectZERO, camera |-> FALSE]
Viewports ==
    {NullViewport} \cup
    [exists : {TRUE}, scene : {"scene", "other"}, rect : {IntRectZERO, SmallRect},
     camera : BOOLEAN]
ViewportLists == UNION {[1..n -> Viewports] : n \in 0..MaxViewports}
SampleViewportLists ==
    {<<[exists |-> TRUE, scene |-> "scene", rect |-> IntRectZERO, camera |-> TRUE]>>,
     <<[exists |-> TRUE, scene |-> "scene", rect |-> SmallRect, camera |-> TRUE]>>}

\* texture coordinates n/d; dyadic so that the float product is exact
Half == [n |-> 1, d |-> 2]
UVs == {<<Half, Half>>,
        <<[n |-> 1, d |-> 4], [n |-> 3, d |-> 4]>>,
        <<[n |-> -1, d |-> 128], [n |-> 129, d |-> 128]>>}
NoUV == <<[n |-> 0, d |-> 1], [n |-> 0, d |-> 1]>>
Hits ==
    {[drawable |-> "billboard", uv |-> NoUV], [drawable |-> "other", uv |-> NoUV]}
    \cup {[drawable |-> "model", uv |-> u] : u \in UVs}
\* Octree::Raycast asks every drawable once and a StaticModel answers with
\* its nearest triangle: the component's model is in the result at most once
HitLists ==
    {h \in UNION {[1..n -> Hits] : n \in 0..MaxHits} :
        Cardinality({i \in DOMAIN h : h[i].drawable = "model"}) <= 1}
SampleHitLists == {<<>>, <<[drawable |-> "model", uv |-> <<Half, Half>>]>>}

EarlyEnvs ==
    [uiExists : BOOLEAN, uiBlockEvents : BOOLEAN, uiEnabled : BOOLEAN, hoverIsRoot : BOOLEAN,
     scene : BOOLEAN, model : BOOLEAN, renderer : BOOLEAN, octree : BOOLEAN,
     viewports : SampleViewportLists, hits : SampleHitLists, pos : Positions]
ViewportEnvs ==
    [uiExists : BOOLEAN, uiBlockEvents : {FALSE}, uiEnabled : {TRUE}, hoverIsRoot : {TRUE},
     scene : {TRUE}, model : {TRUE}, renderer : {TRUE}, octree : {TRUE},
     viewports : ViewportLists, hits : SampleHitLists, pos : Positions]
HitEnvs ==
    [uiExists : BOOLEAN, uiBlockEvents : {FALSE}, uiEnabled : {TRUE}, hoverIsRoot : {TRUE},
     scene : {TRUE}, model : {TRUE}, renderer : {TRUE}, octree : {TRUE},
     viewports : SampleViewportLists, hits : HitLists, pos : Positions]
Envs == EarlyEnvs \cup ViewportEnvs \cup HitEnvs

DefaultEnv ==
    [uiExists |-> FALSE, uiBlockEvents |-> FALSE, uiEnabled |-> TRUE, hoverIsRoot |-> TRUE,
     scene |-> FALSE, model |-> FALSE, renderer |-> FALSE, octree |-> FALSE,
     viewports |-> <<>>, hits |-> <<>>, pos |-> <<50, 50>>]

(***************************************************************************)
(* Initial states and specifications                                       *)
(***************************************************************************)
DefaultSize == <<UICOMPONENT_DEFAULT_TEXTURE_SIZE, UICOMPONENT_DEFAULT_TEXTURE_SIZE>>

\* the constructor: a fresh texture_ and offScreenUI_, then SetSize(default)
InitSurface ==
    \E ok \in BOOLEAN :
        /\ textureSize \in Texture2D_SetSize(<<0, 0>>, DefaultSize, ok)
        /\ renderTarget = (IF ok THEN "surface" ELSE Null)
        /\ enabled = ok
        /\ uiSize = RmlUI_SetRenderTarget(<<0, 0>>, IF ok THEN "surface" ELSE Null, DefaultSize)
        /\ logged = (IF ok THEN {} ELSE {"Resizing of UI rendertarget texture failed."})

SurfaceReady(size) ==
    /\ textureSize = size
    /\ renderTarget = "surface"
    /\ enabled = TRUE
    /\ uiSize = size
    /\ logged = {}

\* RmlMaterialComponent with no material yet (after construction nd is Null)
InitMaterial(res, nd) ==
    /\ node = nd
    /\ material = Null
    /\ matName = [m \in MaterialIds |-> IF m = "e1" THEN "a" ELSE IF m = "e2" THEN "b" ELSE ""]
    /\ matTechnique = [m \in MaterialIds |->
                          IF m \in ExternalMaterials THEN "Techniques/Other.xml" ELSE Null]
    /\ matDiffuse = [m \in MaterialIds |->
                          IF m \in ExternalMaterials THEN "otherTexture" ELSE Null]
    /\ resources = res
    /\ created = {}

InitMapper(e, remap) ==
    /\ remapMousePos = remap
    /\ env = e
    /\ screenPos = e.pos
    /\ viewport = 0
    /\ scanned = FALSE
    /\ raycast = FALSE

\* the surface of an RmlUIComponent and the calls of SetSize
SurfaceInit ==
    /\ InitSurface
    /\ InitMaterial({}, Null)
    /\ InitMapper(DefaultEnv, TRUE)
    /\ call = NoCall

SurfaceNext == SetSize

SurfaceSpec == SurfaceInit /\ [][SurfaceNext]_vars

\* an RmlMaterialComponent in a resource cache that may hold other materials
MaterialInit ==
    /\ SurfaceReady(DefaultSize)
    /\ \E res \in SUBSET ExternalMaterials : InitMaterial(res, Null)
    /\ InitMapper(DefaultEnv, TRUE)
    /\ call = NoCall

MaterialNext == OnNodeSet \/ SetVirtualMaterialName \/ ApplyAttributes

MaterialSpec == MaterialInit /\ [][MaterialNext]_vars

\* one mapper call in every engine state of Envs
MapperInit ==
    /\ \E s \in {UICOMPONENT_MIN_TEXTURE_SIZE, UICOMPONENT_DEFAULT_TEXTURE_SIZE} :
           SurfaceReady(<<s, s>>)
    /\ \E nd \in {"node", Null} : InitMaterial({}, nd)
    /\ \E e \in Envs, remap \in BOOLEAN : InitMapper(e, remap)
    /\ call = NoCall

MapperNext == TranslateMousePos \/ ScreenToUI

MapperSpec == MapperInit /\ [][MapperNext]_vars

(***************************************************************************)
(* Properties                                                              *)
(***************************************************************************)
MapperCalled == call.op \in {"TranslateMousePos", "ScreenToUI"}

OwnFullScreenAt(i) ==
    /\ env.viewports[i].exists /\ env.viewports[i].scene = "scene"
    /\ env.viewports[i].rect = IntRectZERO

OwnSmallContainingAt(i) ==
    /\ env.viewports[i].exists /\ env.viewports[i].scene = "scene"
    /\ env.viewports[i].rect # IntRectZERO
    /\ IntRect_Contains(env.viewports[i].rect, env.pos)

\* C1: when the viewport list holds, in any order, a full-screen viewport and
\* a non-zero-rect viewport containing the position, both bound to the
\* component's scene, the viewport resolved by the mapper is a non-zero-rect one.
C1_SmallViewportSelected ==
    (/\ MapperCalled /\ scanned
     /\ \E i \in DOMAIN env.viewports : OwnFullScreenAt(i)
     /\ \E j \in DOMAIN env.viewports : OwnSmallContainingAt(j))
    => (viewport # 0 /\ env.viewports[viewport].rect # IntRectZERO)

RequestInvalid(size) ==
    \/ size[1] # size[2]
    \/ size[1] < 64 \/ size[1] > 4096
    \/ size[2] < 64 \/ size[2] > 4096

\* C2: a SetSize call with a non-square size or a dimension outside
\* [64, 4096] logs an error and changes neither the texture size, nor the
\* render target of the offscreen context, nor its enabled flag.
C2_InvalidSizeKeepsSurface ==
    [][(call'.op = "SetSize" /\ RequestInvalid(call'.size))
        => (/\ textureSize' = textureSize
            /\ renderTarget' = renderTarget
            /\ enabled' = enabled
            /\ logged' # {})]_vars

C2_Witness ==
    /\ call.op = "SetSize" /\ RequestInvalid(call.size)
    /\ call.size[1] # call.size[2]
    /\ ~enabled /\ renderTarget = Null
    /\ logged = {"Invalid texture size"}

\* C3: after SetSize with a square size in [64, 4096] the offscreen context is
\* enabled with the render surface attached exactly when the allocation
\* succeeded: then its dimensions are the requested size; otherwise the render
\* target is null, the context is disabled and an error is logged.
C3_EnabledIffAllocated ==
    (call.op = "SetSize" /\ ~RequestInvalid(call.size))
    => /\ (enabled /\ renderTarget = "surface") <=> call.allocOk
       /\ call.allocOk => (enabled /\ uiSize = call.size)
       /\ ~call.allocOk => (renderTarget = Null /\ ~enabled /\ logged # {})

C3_Witness ==
    /\ call.op = "SetSize" /\ ~RequestInvalid(call.size)
    /\ ~call.allocOk /\ ~enabled /\ renderTarget = Null
    /\ uiSize # call.size

\* C4: whenever the component owns a material, that material is held by the
\* resource system if and only if the component is attached to a node.
C4_RegisteredIffAttached ==
    material # Null => ((material \in resources) <=> (node # Null))

C4_Witness ==
    /\ call.op = "OnNodeSet" /\ node = Null
    /\ material # Null /\ material \notin resources
    /\ matName[material] # ""

\* C5 as stated: with an overlay context that accepts input and hovers a
\* non-root element, every mapper call ends with the sentinel and without
\* viewport resolution or raycast, whatever the remap flag and node attachment.
C5_OverlayAlwaysWins ==
    (\/ (call.op = "TranslateMousePos"
            /\ env.uiExists /\ ~env.uiBlockEvents /\ ~env.hoverIsRoot)
     \/ (call.op = "ScreenToUI"
            /\ env.uiExists /\ env.uiEnabled /\ ~env.hoverIsRoot))
    => (screenPos = Sentinel /\ ~scanned /\ ~raycast)

PastEntryGuard ==
    \/ (call.op = "TranslateMousePos" /\ remapMousePos /\ node # Null)
    \/ (call.op = "ScreenToUI" /\ node # Null)

OverlayHovered ==
    \/ (call.op = "TranslateMousePos"
            /\ env.uiExists /\ ~env.uiBlockEvents /\ ~env.hoverIsRoot)
    \/ (call.op = "ScreenToUI"
            /\ env.uiExists /\ env.uiEnabled /\ ~env.hoverIsRoot)

\* C5 amended: a mapper call on a component attached to a node (material
\* variant: with the remap flag set) under a hovered, input-accepting overlay
\* ends with the sentinel and without viewport resolution or raycast, whatever
\* the scene, model, renderer and spatial index; a call on a detached
\* component, or with the remap flag cleared, returns the position as passed.
C5_OverlayWinsWhenAttached ==
    /\ (PastEntryGuard /\ OverlayHovered)
          => (screenPos = Sentinel /\ ~scanned /\ ~raycast)
    /\ (MapperCalled /\ ~PastEntryGuard)
          => (screenPos = env.pos /\ ~scanned /\ ~raycast)

C5_Witness ==
    /\ call.op = "TranslateMousePos" /\ remapMousePos /\ node # Null
    /\ env.uiExists /\ ~env.uiBlockEvents /\ ~env.hoverIsRoot
    /\ ~env.scene /\ env.viewports # <<>> /\ env.hits # <<>>
    /\ screenPos = Sentinel /\ env.pos # Sentinel

SceneContextAbsent ==
    ~env.scene \/ ~env.model \/ ~env.renderer \/ ~env.octree

\* C6 as stated: a mapper call made while the scene, the model, the renderer
\* or the spatial index is absent returns the position as passed and logs nothing.
C6_AbsentContextUnchanged ==
    (MapperCalled /\ SceneContextAbsent)
    => (screenPos = env.pos /\ logged = {})

\* C6 amended: a mapper call made while the scene, the model, the renderer or
\* the spatial index is absent logs nothing and returns the position as
\* passed, unless the global-UI precedence check already claimed the cursor
\* (attached component, hovered overlay), in which case it returns the sentinel.
C6_AbsentContextUnchangedUnlessOverlay ==
    (MapperCalled /\ SceneContextAbsent)
    => /\ logged = {}
       /\ ~scanned /\ ~raycast
       /\ screenPos = (IF PastEntryGuard /\ OverlayHovered THEN Sentinel ELSE env.pos)

C6_Witness ==
    /\ call.op = "ScreenToUI" /\ node # Null
    /\ ~OverlayHovered
    /\ env.scene /\ env.model /\ env.renderer /\ ~env.octree
    /\ env.viewports # <<>> /\ env.hits # <<>>
    /\ screenPos = env.pos

NonBillboardAt(i) == env.hits[i].drawable # "billboard"
FirstNonBillboard(i) ==
    /\ NonBillboardAt(i)
    /\ \A j \in 1..(i - 1) : ~NonBillboardAt(j)

\* q is x truncated toward zero, x = num/den, den > 0
IsTruncation(q, num, den) ==
    IF num >= 0 THEN q * den <= num /\ num < (q + 1) * den
    ELSE q * den >= num /\ num > (q - 1) * den

IsMappedFrom(pos, uv, dims) ==
    /\ IsTruncation(pos[1], uv[1].n * dims[1], uv[1].d)
    /\ IsTruncation(pos[2], uv[2].n * dims[2], uv[2].d)

C8_FirstHitOccluderUnchanged ==
    (MapperCalled /\ raycast /\ env.hits # <<>> /\ env.hits[1].drawable = "other")
    => screenPos = env.pos

C8_Witness ==
    /\ MapperCalled /\ raycast
    /\ Len(env.hits) >= 2
    /\ env.hits[1].drawable = "other"
    /\ env.hits[2].drawable = "model"
    /\ screenPos = env.pos

\* C9: SetVirtualMaterialName(name) on a component without a material takes
\* the cached material of that name when there is one, creating nothing, and
\* otherwise creates a material with the default technique; afterwards the
\* component owns a material named `name` whose diffuse texture is its texture.
C9_LookupElseCreate ==
    [][(call'.op = "SetVirtualMaterialName" /\ material = Null)
        => /\ material' # Null
           /\ IF \E x \in resources : matName[x] = call'.name
              THEN /\ material' \in resources /\ matName[material'] = call'.name
                   /\ created' = created
              ELSE /\ material' \in created' \ created
                   /\ material' \notin resources
                   /\ matTechnique'[material'] = "Techniques/Diff.xml"
           /\ matName'[material'] = call'.name
           /\ matDiffuse'[material'] = "texture_"]_vars

C9_Witness ==
    /\ call.op = "SetVirtualMaterialName"
    /\ material \in ExternalMaterials
    /\ created = {}
    /\ matName[material] = call.name
    /\ matDiffuse[material] = "texture_"

OccluderAt(i) == env.hits[i].drawable = "other"
FirstOccluder(i) == OccluderAt(i) /\ \A j \in 1..(i - 1) : ~OccluderAt(j)

====
